---- MODULE Spec2Model ----
(***************************************************************************)
(* Model of core/Kernel.cc: the Pipeline registry (algVec, toolVec,        *)
(* runningReaders), the phased Pipeline::process() loop, the output file   *)
(* map (makeOutFile / getOutFile) and the SimpleAlg single-reader adapter. *)
(*                                                                         *)
(* process() is modelled step by step: one action per iteration of each of *)
(* its for-loops and one per loop exit, so that the position of process()  *)
(* (pc, idx) is part of the state.  The virtual calls it makes (load,      *)
(* connect, execute, finalize) are the environment: the status an          *)
(* execute() returns is drawn from Status, except for SimpleAlg, whose     *)
(* execute() is in the source.                                             *)
(***************************************************************************)
EXTENDS Integers, Sequences, FiniteSets, TLC

\* ------------------------------------------------------------------ bounds
MaxAlgs == 3        \* at most this many makeAlg calls
MaxTools == 1       \* at most this many makeTool calls
MaxFiles == 2       \* at most this many TFile objects are ever created
CountCap == 2       \* history counters saturate here (CountCap reads "or more")
MaxScript == 5      \* a scripted reader returns EndOfFile on call 1..MaxScript

\* ------------------------------------------------------- program constants
Status == {"Continue", "SkipToNext", "EndOfFile"}

\* Concrete algorithm classes registered with makeAlg<Alg>(): two reader
\* classes (isReader() overridden to true), one plain algorithm, and
\* SimpleAlg<ReaderA>.
AlgTypes == {"ReaderA", "ReaderB", "Plain", "SimpleA"}
ToolTypes == {"ToolX"}

\* Algorithm classes that override getTag(): Tagged returns the tag given to
\* its constructor, and TaggedSub derives from Tagged.
TagTypes == {"Tagged", "TaggedSub"}
TagValues == {1, 2}

DefaultFile == ""
Names == {DefaultFile, "aux"}
Paths == {"p.root", "q.root"}
InFileChoices == {<<"a.root">>, <<"a.root", "b.root", "a.root">>}

NullPtr == 0

isReader(type) == type \in {"ReaderA", "ReaderB"}

vetoIf(cond) == IF cond THEN "SkipToNext" ELSE "Continue"

NoCall == [op |-> "none", kind |-> "none", idx |-> 0, status |-> "none", consumed |-> "none"]
NoOut == [op |-> "none", name |-> DefaultFile, reopen |-> FALSE,
          result |-> "none", ret |-> NullPtr, events |-> <<>>]
NoGet == [op |-> "none", Thing |-> "none", pred |-> {}, tag |-> [hi |-> 0, lo |-> 0],
          result |-> "none", ret |-> NullPtr]
NoIn == [i |-> 0, result |-> "none", ret |-> NullPtr, opened |-> FALSE]

VARIABLES
  algVec,          \* Pipeline::algVec: sequence of algorithm classes
  toolVec,         \* Pipeline::toolVec
  runningReaders,  \* Pipeline::runningReaders: set of positions in algVec
  outFileMap,      \* Pipeline::outFileMap: name -> file id (NullPtr: empty unique_ptr)
  files,           \* every TFile ever created: [path, open]
  cwd,             \* ROOT's current directory (set by TFile::cd)
  inFilePaths,     \* Pipeline::inFilePaths
  reader,          \* SimpleAlg::reader per algorithm (NullPtr for the others)
  ready,           \* ReaderT::ready() per algorithm
  pipeSet,         \* Node::pipe_ per algorithm: "uninit" or "set"
  toolPipeSet,     \* Node::pipe_ per tool: "uninit" or "set"
  pc,              \* where process() is: idle, load, connect, connectTools, exec, post, finalize
  idx,             \* position of the current for-loop
  lastResult,      \* process(): none (not called), running, returned, threw, crashed
  script,          \* per algorithm: a scripted reader returns EndOfFile on this call (0: unscripted)
  calls,           \* per algorithm: execute() calls a scripted reader has counted
  \* history of the process() call
  cycle,           \* number of cycles begun (saturating)
  invoked,         \* algorithms whose execute() was called in the current cycle
  skipPos,         \* position that returned SkipToNext in the current cycle (0: none)
  algCalls,        \* per algorithm: calls received, by operation (saturating; for
                   \* execute only whether it was called)
  toolCalls,       \* per tool: calls received, by operation (saturating)
  lastCall,        \* the component call made by the latest step (NoCall: none): which
                   \* operation on which component, the status execute() returned and,
                   \* for SimpleAlg, what its consume() returned ("none": not called)
  inCallback,      \* the latest step of process() was a call into a component
  eofRet,          \* readers that have returned EndOfFile
  lastOut,         \* the latest makeOutFile / getOutFile call and its outcome
  lastMade,        \* per name: the file the latest successful makeOutFile created
  tags,            \* per algorithm: what its getTag() returns, when its class has one
  lastGet,         \* the latest getAlg / getTool call and its outcome
  inFileHandles,   \* Pipeline::inFileHandles: path -> input file id
  inOpened,        \* every input TFile ever created: its path
  lastIn           \* the latest inFile call and its outcome

regVars == <<algVec, toolVec, runningReaders, reader, ready, pipeSet, toolPipeSet, script, calls>>
fileVars == <<outFileMap, files, lastOut, lastMade>>
procVars == <<pc, idx, lastResult, inFilePaths, cwd>>
histVars == <<cycle, invoked, skipPos, algCalls, toolCalls, lastCall, inCallback, eofRet>>
inVars == <<inFileHandles, inOpened, lastIn>>
auxVars == <<tags, lastGet, inVars>>
vars == <<regVars, fileVars, procVars, histVars, auxVars>>


Ops == {"load", "connect", "execute", "finalize"}
NoCalls == [o \in Ops |-> 0]

Min(a, b) == IF a < b THEN a ELSE b
Max(a, b) == IF a < b THEN b ELSE a
SetMin(S) == CHOOSE x \in S : \A y \in S : x <= y
SetMax(S) == CHOOSE x \in S : \A y \in S : x >= y

nAlgs == Len(algVec)
nTools == Len(toolVec)

\* History counters saturate at CountCap, or one past the longest reader
\* script when that is larger, so that a scripted run is counted exactly.
Cap == Max(CountCap, SetMax({script[i] : i \in 1..Len(script)} \cup {0}) + 1)
Bump(n) == Min(n + 1, Cap)

\* The state after Pipeline() = default.
Init ==
  /\ algVec = <<>>
  /\ toolVec = <<>>
  /\ runningReaders = {}
  /\ outFileMap = <<>>
  /\ files = <<>>
  /\ cwd = NullPtr
  /\ inFilePaths = <<>>
  /\ reader = <<>>
  /\ ready = <<>>
  /\ pipeSet = <<>>
  /\ toolPipeSet = <<>>
  /\ script = <<>>
  /\ calls = <<>>
  /\ pc = "idle"
  /\ idx = 0
  /\ lastResult = "none"
  /\ cycle = 0
  /\ invoked = {}
  /\ skipPos = 0
  /\ algCalls = <<>>
  /\ toolCalls = <<>>
  /\ lastCall = NoCall
  /\ inCallback = FALSE
  /\ eofRet = {}
  /\ lastOut = NoOut
  /\ lastMade = <<>>
  /\ tags = <<>>
  /\ lastGet = NoGet
  /\ inFileHandles = <<>>
  /\ inOpened = <<>>
  /\ lastIn = NoIn

\* --------------------------------------------------------------- registry

\* dynamic_cast<Thing*>: the object's class is Thing or derives from it.
DerivesTo(type, Thing) ==
  \/ type = Thing
  \/ Thing = "Algorithm" /\ type \in AlgTypes \cup TagTypes
  \/ Thing = "Tool" /\ type \in ToolTypes \cup {"ToolY"}
  \/ Thing = "Tagged" /\ type = "TaggedSub"

\* Hits with the predicate ignored.
HitsNoPred(vec, Thing, pred) ==
  {i \in 1..Len(vec) : DerivesTo(vec[i], Thing)}

\* The positions getThing's scan accepts: dynamic_cast succeeds and
\* (!pred || pred(*castedPtr)); pred is the set of positions at which the
\* predicate holds.
Hits(vec, Thing, pred) ==
  {i \in 1..Len(vec) : DerivesTo(vec[i], Thing) /\ i \in pred}

\* getThing returning the last hit instead of the first.
getThingLast(vec, Thing, pred) ==
  IF Hits(vec, Thing, pred) = {} THEN NullPtr ELSE SetMax(Hits(vec, Thing, pred))

\* Pipeline::getThing(vec, pred): position of the first hit, NullPtr standing
\* for the runtime_error "getThing() couldn't find".
getThing(vec, Thing, pred) ==
  IF Hits(vec, Thing, pred) = {} THEN NullPtr ELSE SetMin(Hits(vec, Thing, pred))

\* Pred<Thing> pred = nullptr: every position passes.
NoPred(vec) == 1..Len(vec)

\* Pipeline::getAlg<Alg>(pred = nullptr)
getAlg(Thing) == getThing(algVec, Thing, NoPred(algVec))

\* Pipeline::getTool<Tool>(pred = nullptr)
getTool(Thing) == getThing(toolVec, Thing, NoPred(toolVec))

\* The pipeline is assembled before process() is called, and process() is
\* called once.
Assembling == pc = "idle" /\ lastResult = "none"

\* makeAlg that also sets the new algorithm's pipe_.
MakeAlgConnected(type, k) ==
  /\ Assembling
  /\ nAlgs < MaxAlgs
  /\ algVec' = Append(algVec, type)
  /\ runningReaders' = IF isReader(type) THEN runningReaders \cup {nAlgs + 1}
                       ELSE runningReaders
  /\ reader' = Append(reader, NullPtr)
  /\ ready' = Append(ready, FALSE)
  /\ pipeSet' = Append(pipeSet, "set")
  /\ script' = Append(script, k)
  /\ calls' = Append(calls, 0)
  /\ algCalls' = Append(algCalls, NoCalls)
  /\ lastCall' = NoCall
  /\ UNCHANGED <<toolVec, toolPipeSet, fileVars, procVars, cycle, invoked, skipPos,
                 toolCalls, inCallback, eofRet>>
  /\ tags' = Append(tags, 0)
  /\ UNCHANGED <<lastGet, inVars>>

\* Pipeline::makeAlg<Alg>(args): k is the constructor argument of a scripted
\* reader (0 for every other algorithm).
MakeAlg(type, k) ==
  /\ Assembling
  /\ nAlgs < MaxAlgs
  /\ algVec' = Append(algVec, type)
  /\ runningReaders' = IF isReader(type) THEN runningReaders \cup {nAlgs + 1}
                       ELSE runningReaders
  /\ reader' = Append(reader, NullPtr)
  /\ ready' = Append(ready, FALSE)
  /\ pipeSet' = Append(pipeSet, "uninit")
  /\ script' = Append(script, k)
  /\ calls' = Append(calls, 0)
  /\ algCalls' = Append(algCalls, NoCalls)
  /\ lastCall' = NoCall
  /\ UNCHANGED <<toolVec, toolPipeSet, fileVars, procVars, cycle, invoked, skipPos,
                 toolCalls, inCallback, eofRet>>
  /\ tags' = Append(tags, 0)
  /\ UNCHANGED <<lastGet, inVars>>

\* Pipeline::makeTool<Tool>(args)
MakeTool(type) ==
  /\ Assembling
  /\ nTools < MaxTools
  /\ toolVec' = Append(toolVec, type)
  /\ toolPipeSet' = Append(toolPipeSet, "uninit")
  /\ toolCalls' = Append(toolCalls, NoCalls)
  /\ lastCall' = NoCall
  /\ UNCHANGED <<algVec, runningReaders, reader, ready, pipeSet, script, calls, fileVars,
                 procVars, cycle, invoked, skipPos, algCalls, inCallback, eofRet>>
  /\ UNCHANGED auxVars

\* ---------------------------------------------------------------- process

Called(cs, i, op) == [cs EXCEPT ![i][op] = Bump(@)]
CallOf(op, kind, i) ==
  [op |-> op, kind |-> kind, idx |-> i, status |-> "none", consumed |-> "none"]

\* A step of process() that calls no component.
NoCallMade == lastCall' = NoCall /\ inCallback' = FALSE

\* Entry of process(): inFilePaths = inFiles, then the load loop begins.
ProcessBegin(inFiles) ==
  /\ Assembling
  /\ inFilePaths' = inFiles
  /\ pc' = "load"
  /\ idx' = 1
  /\ lastResult' = "running"
  /\ NoCallMade
  /\ UNCHANGED <<regVars, fileVars, cwd, cycle, invoked, skipPos, algCalls, toolCalls,
                 eofRet>>
  /\ UNCHANGED auxVars

\* for (alg : algVec) alg->load(inFiles)
LoadStep ==
  /\ pc = "load"
  /\ idx <= nAlgs
  /\ algCalls' = Called(algCalls, idx, "load")
  /\ lastCall' = CallOf("load", "alg", idx)
  /\ inCallback' = TRUE
  /\ idx' = idx + 1
  /\ UNCHANGED <<regVars, fileVars, pc, lastResult, inFilePaths, cwd, cycle, invoked,
                 skipPos, toolCalls, eofRet>>
  /\ UNCHANGED auxVars

LoadDone ==
  /\ pc = "load"
  /\ idx > nAlgs
  /\ pc' = "connect"
  /\ idx' = 1
  /\ NoCallMade
  /\ UNCHANGED <<regVars, fileVars, lastResult, inFilePaths, cwd, cycle, invoked,
                 skipPos, algCalls, toolCalls, eofRet>>
  /\ UNCHANGED auxVars

\* alg->do_connect(*this): pipe_ = &pipeline; connect(pipeline).  Only
\* SimpleAlg overrides connect(): reader = pipeline.getAlg<ReaderT>(), which
\* throws out of process() when no ReaderT is registered.
ConnectAlgStep ==
  /\ pc = "connect"
  /\ idx <= nAlgs
  /\ pipeSet' = [pipeSet EXCEPT ![idx] = "set"]
  /\ algCalls' = Called(algCalls, idx, "connect")
  /\ lastCall' = CallOf("connect", "alg", idx)
  /\ IF algVec[idx] = "SimpleA" /\ getAlg("ReaderA") = NullPtr
       THEN /\ pc' = "idle"
            /\ idx' = 0
            /\ lastResult' = "threw"
            /\ inCallback' = FALSE
            /\ UNCHANGED reader
       ELSE /\ reader' = IF algVec[idx] = "SimpleA"
                           THEN [reader EXCEPT ![idx] = getAlg("ReaderA")]
                           ELSE reader
            /\ idx' = idx + 1
            /\ inCallback' = TRUE
            /\ UNCHANGED <<pc, lastResult>>
  /\ UNCHANGED <<algVec, toolVec, runningReaders, ready, toolPipeSet, script, calls,
                 fileVars, inFilePaths, cwd, cycle, invoked, skipPos, toolCalls, eofRet>>
  /\ UNCHANGED auxVars

\* ConnectAlgDone with the tool loop forgotten: the cycle loop begins at once.
ConnectAlgDoneNoTools ==
  /\ pc = "connect"
  /\ idx > nAlgs
  /\ pc' = "exec"
  /\ idx' = 1
  /\ cycle' = Bump(cycle)
  /\ NoCallMade
  /\ UNCHANGED <<regVars, fileVars, lastResult, inFilePaths, cwd, invoked,
                 skipPos, algCalls, toolCalls, eofRet>>
  /\ UNCHANGED auxVars

ConnectAlgDone ==
  /\ pc = "connect"
  /\ idx > nAlgs
  /\ pc' = "connectTools"
  /\ idx' = 1
  /\ NoCallMade
  /\ UNCHANGED <<regVars, fileVars, lastResult, inFilePaths, cwd, cycle, invoked,
                 skipPos, algCalls, toolCalls, eofRet>>
  /\ UNCHANGED auxVars

\* tool->do_connect(*this)
ConnectToolStep ==
  /\ pc = "connectTools"
  /\ idx <= nTools
  /\ toolPipeSet' = [toolPipeSet EXCEPT ![idx] = "set"]
  /\ toolCalls' = Called(toolCalls, idx, "connect")
  /\ lastCall' = CallOf("connect", "tool", idx)
  /\ inCallback' = TRUE
  /\ idx' = idx + 1
  /\ UNCHANGED <<algVec, toolVec, runningReaders, reader, ready, pipeSet, script, calls,
                 fileVars, pc, lastResult, inFilePaths, cwd, cycle, invoked, skipPos,
                 algCalls, eofRet>>
  /\ UNCHANGED auxVars

\* The tool loop is over: while (true) is entered and its for-loop begins.
ConnectToolDone ==
  /\ pc = "connectTools"
  /\ idx > nTools
  /\ pc' = "exec"
  /\ idx' = 1
  /\ cycle' = Bump(cycle)
  /\ invoked' = {}
  /\ skipPos' = 0
  /\ NoCallMade
  /\ UNCHANGED <<regVars, fileVars, lastResult, inFilePaths, cwd, algCalls, toolCalls,
                 eofRet>>
  /\ UNCHANGED auxVars

\* The test for exhausted readers left out: no algorithm is skipped.
ExhaustedNever(i) == FALSE

\* if (alg->isReader() && runningReaders.count(alg.get()) == 0) continue;
Exhausted(i) == isReader(algVec[i]) /\ i \notin runningReaders

ExecSkipExhausted ==
  /\ pc = "exec"
  /\ idx <= nAlgs
  /\ Exhausted(idx)
  /\ idx' = idx + 1
  /\ NoCallMade
  /\ UNCHANGED <<regVars, fileVars, pc, lastResult, inFilePaths, cwd, cycle, invoked,
                 skipPos, algCalls, toolCalls, eofRet>>
  /\ UNCHANGED auxVars

\* AfterStatus without the erase: EndOfFile leaves the reader active.
AfterStatusNoErase(s) ==
  /\ IF s = "SkipToNext"
       THEN idx' = nAlgs + 1 /\ skipPos' = idx
       ELSE idx' = idx + 1 /\ UNCHANGED skipPos
  /\ runningReaders' = runningReaders
  /\ eofRet' = IF s = "EndOfFile" /\ isReader(algVec[idx]) THEN eofRet \cup {idx} ELSE eofRet

\* AfterStatus without the break: SkipToNext goes on with the next algorithm.
AfterStatusNoBreak(s) ==
  /\ idx' = idx + 1
  /\ skipPos' = IF s = "SkipToNext" THEN idx ELSE skipPos
  /\ runningReaders' = IF s = "EndOfFile" THEN runningReaders \ {idx} ELSE runningReaders
  /\ eofRet' = IF s = "EndOfFile" /\ isReader(algVec[idx]) THEN eofRet \cup {idx} ELSE eofRet

\* AfterStatus where EndOfFile breaks out of the for-loop as well.
AfterStatusEofBreaks(s) ==
  /\ IF s = "SkipToNext"
       THEN idx' = nAlgs + 1 /\ skipPos' = idx
       ELSE /\ idx' = IF s = "EndOfFile" THEN nAlgs + 1 ELSE idx + 1
            /\ UNCHANGED skipPos
  /\ runningReaders' = IF s = "EndOfFile" THEN runningReaders \ {idx} ELSE runningReaders
  /\ eofRet' = IF s = "EndOfFile" /\ isReader(algVec[idx]) THEN eofRet \cup {idx} ELSE eofRet

\* AfterStatus where SkipToNext also erases the algorithm from runningReaders.
AfterStatusSkipErases(s) ==
  /\ IF s = "SkipToNext"
       THEN idx' = nAlgs + 1 /\ skipPos' = idx
       ELSE idx' = idx + 1 /\ UNCHANGED skipPos
  /\ runningReaders' = IF s \in {"EndOfFile", "SkipToNext"} THEN runningReaders \ {idx}
                       ELSE runningReaders
  /\ eofRet' = IF s = "EndOfFile" /\ isReader(algVec[idx]) THEN eofRet \cup {idx} ELSE eofRet

\* if (status == SkipToNext) break;
\* if (status == EndOfFile) runningReaders.erase(alg.get());
AfterStatus(s) ==
  /\ IF s = "SkipToNext"
       THEN idx' = nAlgs + 1 /\ skipPos' = idx
       ELSE idx' = idx + 1 /\ UNCHANGED skipPos
  /\ runningReaders' = IF s = "EndOfFile" THEN runningReaders \ {idx} ELSE runningReaders
  /\ eofRet' = IF s = "EndOfFile" /\ isReader(algVec[idx]) THEN eofRet \cup {idx} ELSE eofRet

\* const auto status = alg->execute(): the call, as the history records it.
Executed(s, c) ==
  /\ invoked' = invoked \cup {idx}
  /\ algCalls' = [algCalls EXCEPT ![idx]["execute"] = 1]
  /\ lastCall' = [op |-> "execute", kind |-> "alg", idx |-> idx, status |-> s,
                  consumed |-> c]
  /\ inCallback' = TRUE

\* SimpleAlg::execute() without the ready() test: consume() is always called.
SimpleAlgExecuteAlways(s) == Executed(s, s) /\ AfterStatus(s)

\* SimpleAlg<ReaderT>::execute(): s is what consume() returns when called.
SimpleAlgExecute(s) ==
  IF ready[reader[idx]]
    THEN Executed(s, s) /\ AfterStatus(s)
    ELSE s = "Continue" /\ Executed("Continue", "none") /\ AfterStatus("Continue")

\* execute() of a scripted reader: Continue until its script[idx]-th call,
\* which returns EndOfFile.
ScriptStatus(i) == IF calls[i] + 1 >= script[i] THEN "EndOfFile" ELSE "Continue"

\* One iteration of the for-loop on an algorithm that is not skipped.  A
\* reader's execute() also decides whether it holds a ready payload next.
ExecStep(s, rdy) ==
  /\ pc = "exec"
  /\ idx <= nAlgs
  /\ ~Exhausted(idx)
  /\ IF algVec[idx] = "SimpleA"
       THEN /\ rdy = FALSE
            /\ SimpleAlgExecute(s)
            /\ UNCHANGED <<ready, calls>>
       ELSE /\ Executed(s, "none")
            /\ AfterStatus(s)
            /\ IF isReader(algVec[idx])
                 THEN ready' = [ready EXCEPT ![idx] = rdy]
                 ELSE rdy = FALSE /\ UNCHANGED ready
            /\ IF script[idx] > 0
                 THEN /\ s = ScriptStatus(idx)
                      /\ calls' = [calls EXCEPT ![idx] = Min(@ + 1, script[idx])]
                 ELSE UNCHANGED calls
  /\ UNCHANGED <<algVec, toolVec, reader, pipeSet, toolPipeSet, script, fileVars, pc,
                 lastResult, inFilePaths, cwd, cycle, toolCalls>>
  /\ UNCHANGED auxVars

\* CycleEnd with the loop left when one reader remains (size() == 1).
CycleEndOffByOne ==
  /\ pc = "exec"
  /\ idx > nAlgs
  /\ IF Cardinality(runningReaders) = 1
       THEN /\ pc' = "post"
            /\ idx' = 0
            /\ UNCHANGED <<cycle, invoked, skipPos>>
       ELSE /\ idx' = 1
            /\ cycle' = Bump(cycle)
            /\ invoked' = {}
            /\ skipPos' = 0
            /\ UNCHANGED pc
  /\ NoCallMade
  /\ UNCHANGED <<regVars, fileVars, lastResult, inFilePaths, cwd, algCalls, toolCalls,
                 eofRet>>
  /\ UNCHANGED auxVars

\* The for-loop is over (end of algVec, or break):
\* if (runningReaders.size() == 0) break;    else the next cycle begins.
CycleEnd ==
  /\ pc = "exec"
  /\ idx > nAlgs
  /\ IF Cardinality(runningReaders) = 0
       THEN /\ pc' = "post"
            /\ idx' = 0
            /\ UNCHANGED <<cycle, invoked, skipPos>>
       ELSE /\ idx' = 1
            /\ cycle' = Bump(cycle)
            /\ invoked' = {}
            /\ skipPos' = 0
            /\ UNCHANGED pc
  /\ NoCallMade
  /\ UNCHANGED <<regVars, fileVars, lastResult, inFilePaths, cwd, algCalls, toolCalls,
                 eofRet>>
  /\ UNCHANGED auxVars

\* ----------------------------------------------------------- output files

Bound(name) == name \in DOMAIN outFileMap

Bind(map, name, h) == [n \in DOMAIN map \cup {name} |-> IF n = name THEN h ELSE map[n]]
Erase(map, name) == [n \in DOMAIN map \ {name} |-> map[n]]

\* outFileMap.erase(it) destroys the entry's unique_ptr, which deletes
\* (closes) the TFile it owns.
Release(fs, h) == IF h = NullPtr THEN fs ELSE [fs EXCEPT ![h].open = FALSE]
ReleaseEvents(h) == IF h = NullPtr THEN <<>> ELSE << <<"release", h>> >>

\* outFileMap[name]: std::map::operator[] inserts an empty unique_ptr when
\* name is not a key.
Subscript(map, name) == IF name \in DOMAIN map THEN map ELSE Bind(map, name, NullPtr)

\* A call made while process() runs comes from a component's callback.
MayCallPipeline == pc = "idle" \/ inCallback

\* An exception thrown into a callback either is caught there or leaves
\* process().
Thrown(caught) ==
  IF pc = "idle" \/ caught
    THEN UNCHANGED <<pc, idx, lastResult, inCallback>>
    ELSE pc' = "idle" /\ idx' = 0 /\ lastResult' = "threw" /\ inCallback' = FALSE

\* throw std::runtime_error(Form("file %s already opened", name))
AlreadyOpened(name, reopen, caught) ==
  /\ lastOut' = [op |-> "make", name |-> name, reopen |-> reopen,
                 result |-> "already opened", ret |-> NullPtr, events |-> <<>>]
  /\ Thrown(caught)
  /\ UNCHANGED <<outFileMap, files, lastMade>>

\* outFileMap.erase(it), which releases the file old when the entry held one,
\* then outFileMap[name] = std::make_unique<TFile>(path, "RECREATE").
OpenOutFile(path, name, reopen, old) ==
  /\ Len(files) < MaxFiles
  /\ LET new == Len(files) + 1
     IN /\ files' = Append(Release(files, old), [path |-> path, open |-> TRUE])
        /\ outFileMap' = Bind(Erase(outFileMap, name), name, new)
        /\ lastMade' = Bind(lastMade, name, new)
        /\ lastOut' = [op |-> "make", name |-> name, reopen |-> reopen,
                       result |-> "ok", ret |-> new,
                       events |-> ReleaseEvents(old) \o << <<"create", new>> >>]
  /\ UNCHANGED <<pc, idx, lastResult, inCallback>>

Held(name) == IF Bound(name) THEN outFileMap[name] ELSE NullPtr

\* makeOutFile without the "already opened" test: a bound name is replaced.
MakeOutFileNoConflict(path, name, reopen, caught) ==
  /\ MayCallPipeline
  /\ caught = TRUE
  /\ OpenOutFile(path, name, reopen, Held(name))
  /\ lastCall' = NoCall
  /\ UNCHANGED <<regVars, inFilePaths, cwd, cycle, invoked, skipPos, algCalls, toolCalls,
                 eofRet>>
  /\ UNCHANGED auxVars

\* makeOutFile that overwrites the entry without destroying the file it held.
MakeOutFileLeak(path, name, reopen, caught) ==
  /\ MayCallPipeline
  /\ IF Bound(name) /\ ~reopen
       THEN AlreadyOpened(name, reopen, caught)
       ELSE caught = TRUE /\ OpenOutFile(path, name, reopen, NullPtr)
  /\ lastCall' = NoCall
  /\ UNCHANGED <<regVars, inFilePaths, cwd, cycle, invoked, skipPos, algCalls, toolCalls,
                 eofRet>>
  /\ UNCHANGED auxVars

\* Pipeline::makeOutFile(path, name, reopen)
MakeOutFile(path, name, reopen, caught) ==
  /\ MayCallPipeline
  /\ IF Bound(name) /\ ~reopen
       THEN AlreadyOpened(name, reopen, caught)
       ELSE caught = TRUE /\ OpenOutFile(path, name, reopen, Held(name))
  /\ lastCall' = NoCall
  /\ UNCHANGED <<regVars, inFilePaths, cwd, cycle, invoked, skipPos, algCalls, toolCalls,
                 eofRet>>
  /\ UNCHANGED auxVars

\* getOutFile as a lookup that inserts nothing.
GetOutFileNoInsert(name) ==
  /\ MayCallPipeline
  /\ outFileMap' = outFileMap
  /\ lastOut' = [op |-> "get", name |-> name, reopen |-> FALSE, result |-> "ok",
                 ret |-> Held(name), events |-> <<>>]
  /\ lastCall' = NoCall
  /\ UNCHANGED <<files, lastMade, regVars, procVars, cycle, invoked, skipPos, algCalls,
                 toolCalls, inCallback, eofRet>>
  /\ UNCHANGED auxVars

\* Pipeline::getOutFile(name)
GetOutFile(name) ==
  /\ MayCallPipeline
  /\ outFileMap' = Subscript(outFileMap, name)
  /\ lastOut' = [op |-> "get", name |-> name, reopen |-> FALSE, result |-> "ok",
                 ret |-> Subscript(outFileMap, name)[name], events |-> <<>>]
  /\ lastCall' = NoCall
  /\ UNCHANGED <<files, lastMade, regVars, procVars, cycle, invoked, skipPos, algCalls,
                 toolCalls, inCallback, eofRet>>
  /\ UNCHANGED auxVars

\* ------------------------------------------------------- process, the end

\* if (outFileMap.find(DefaultFile) != outFileMap.end()) getOutFile()->cd();
\* cd() through the null pointer of an empty unique_ptr is undefined
\* behaviour: the call either crashes process() or goes on with the current
\* directory unchanged.
PostLoop(crash) ==
  /\ pc = "post"
  /\ IF Bound(DefaultFile)
       THEN /\ lastOut' = [op |-> "get", name |-> DefaultFile, reopen |-> FALSE,
                           result |-> "ok", ret |-> outFileMap[DefaultFile],
                           events |-> <<>>]
            /\ IF outFileMap[DefaultFile] = NullPtr
                 THEN IF crash
                        THEN pc' = "idle" /\ idx' = 0 /\ lastResult' = "crashed"
                             /\ UNCHANGED cwd
                        ELSE pc' = "finalize" /\ idx' = 1 /\ UNCHANGED <<cwd, lastResult>>
                 ELSE /\ crash = FALSE
                      /\ cwd' = outFileMap[DefaultFile]
                      /\ pc' = "finalize" /\ idx' = 1 /\ UNCHANGED lastResult
       ELSE /\ crash = FALSE
            /\ pc' = "finalize" /\ idx' = 1
            /\ UNCHANGED <<cwd, lastResult, lastOut>>
  /\ NoCallMade
  /\ UNCHANGED <<regVars, outFileMap, files, lastMade, inFilePaths, cycle, invoked,
                 skipPos, algCalls, toolCalls, eofRet>>
  /\ UNCHANGED auxVars

\* for (alg : algVec) alg->finalize(*this)
FinalizeStep ==
  /\ pc = "finalize"
  /\ idx <= nAlgs
  /\ algCalls' = Called(algCalls, idx, "finalize")
  /\ lastCall' = CallOf("finalize", "alg", idx)
  /\ inCallback' = TRUE
  /\ idx' = idx + 1
  /\ UNCHANGED <<regVars, fileVars, pc, lastResult, inFilePaths, cwd, cycle, invoked,
                 skipPos, toolCalls, eofRet>>
  /\ UNCHANGED auxVars

\* process() returns.
ProcessReturn ==
  /\ pc = "finalize"
  /\ idx > nAlgs
  /\ pc' = "idle"
  /\ idx' = 0
  /\ lastResult' = "returned"
  /\ NoCallMade
  /\ UNCHANGED <<regVars, fileVars, inFilePaths, cwd, cycle, invoked, skipPos, algCalls,
                 toolCalls, eofRet>>
  /\ UNCHANGED auxVars

\* -------------------------------------------------------- specifications

\* The steps of process() after its entry on a pipeline that holds no reader,
\* the statuses that execute() and consume() may return drawn from S.
ReaderlessStepOver(S) ==
  \/ LoadStep
  \/ LoadDone
  \/ ConnectAlgStep
  \/ ConnectAlgDone
  \/ ConnectToolStep
  \/ ConnectToolDone
  \/ \E s \in S, rdy \in BOOLEAN : ExecStep(s, rdy)
  \/ CycleEnd
  \/ \E crash \in BOOLEAN : PostLoop(crash)
  \/ FinalizeStep
  \/ ProcessReturn

\* With readers registered the loop also skips the exhausted ones.
ProcStepOver(S) == ReaderlessStepOver(S) \/ ExecSkipExhausted

ProcStep == ProcStepOver(Status)

\* The engine: a pipeline is assembled from any classes, then processed.
Next ==
  \/ \E type \in AlgTypes : MakeAlg(type, 0)
  \/ \E type \in ToolTypes : MakeTool(type)
  \/ ProcessBegin(<<"a.root">>)
  \/ ProcStep

Spec == Init /\ [][Next]_vars


\* The output files: makeOutFile and getOutFile called by the assembling code
\* and by the callbacks of plain algorithms and tools while process() runs.
NextFiles ==
  \/ MakeAlg("Plain", 0)
  \/ \E type \in ToolTypes : MakeTool(type)
  \/ \E inFiles \in InFileChoices : ProcessBegin(inFiles)
  \/ ReaderlessStepOver({"Continue", "SkipToNext"})
  \/ \E path \in Paths, name \in Names, reopen \in BOOLEAN, caught \in BOOLEAN :
       MakeOutFile(path, name, reopen, caught)
  \/ \E name \in Names : GetOutFile(name)

SpecFiles == Init /\ [][NextFiles]_vars

\* The bounded-steps test: a pipeline of scripted readers (EndOfFile on the
\* script[i]-th call, Continue before), plain algorithms and SimpleAlg
\* consumers that never return SkipToNext, and one tool; process() is called
\* on it.
MockRosters ==
  { <<"ReaderA">>,
    <<"ReaderA", "ReaderB">>,
    <<"ReaderA", "ReaderA">>,
    <<"Plain", "ReaderB", "ReaderA">>,
    <<"ReaderA", "ReaderB", "SimpleA">>,
    <<"ReaderB", "ReaderA", "SimpleA">>,
    <<"ReaderA", "SimpleA", "ReaderB">>,
    <<"SimpleA", "ReaderA", "ReaderB">> }

RosterLen == SetMax({Len(r) : r \in MockRosters})

ScriptsOf(roster) ==
  {f \in [1..Len(roster) -> 0..MaxScript] :
     \A i \in 1..Len(roster) : isReader(roster[i]) <=> f[i] >= 1}

\* The state after assembling the algorithms of roster, built with the
\* constructor arguments scr (scripted readers) and tgs (tagged classes), and
\* the tools of tools, by makeAlg and makeTool.
Assembled(roster, scr, tgs, tools) ==
  /\ algVec = roster
  /\ script = scr
  /\ toolVec = tools
  /\ runningReaders = {i \in 1..Len(roster) : isReader(roster[i])}
  /\ reader = [i \in 1..Len(roster) |-> NullPtr]
  /\ ready = [i \in 1..Len(roster) |-> FALSE]
  /\ pipeSet = [i \in 1..Len(roster) |-> "uninit"]
  /\ toolPipeSet = [i \in 1..Len(tools) |-> "uninit"]
  /\ calls = [i \in 1..Len(roster) |-> 0]
  /\ tags = tgs
  /\ algCalls = [i \in 1..Len(roster) |-> NoCalls]
  /\ toolCalls = [i \in 1..Len(tools) |-> NoCalls]
  /\ outFileMap = <<>>
  /\ files = <<>>
  /\ cwd = NullPtr
  /\ inFilePaths = <<>>
  /\ pc = "idle"
  /\ idx = 0
  /\ lastResult = "none"
  /\ cycle = 0
  /\ invoked = {}
  /\ skipPos = 0
  /\ lastCall = NoCall
  /\ inCallback = FALSE
  /\ eofRet = {}
  /\ lastOut = NoOut
  /\ lastMade = <<>>
  /\ lastGet = NoGet
  /\ inFileHandles = <<>>
  /\ inOpened = <<>>
  /\ lastIn = NoIn

\* The state after assembling roster, with one tool.
InitOn(roster, scr) ==
  Assembled(roster, scr, [i \in 1..Len(roster) |-> 0], <<"ToolX">>)

InitMock == \E roster \in MockRosters : \E scr \in ScriptsOf(roster) : InitOn(roster, scr)

NextMock ==
  \/ ProcessBegin(<<"a.root">>)
  \/ ProcStepOver({"Continue", "EndOfFile"})

SpecMock == InitMock /\ [][NextMock]_vars

\* process() called on the same pipelines with unscripted components, which
\* may return any status on any call.  process() is running code: once called
\* it keeps taking steps.
InitFree == \E roster \in MockRosters : InitOn(roster, [i \in 1..Len(roster) |-> 0])

NextFree ==
  \/ ProcessBegin(<<"a.root">>)
  \/ ProcStep

FairSpec == InitFree /\ [][NextFree]_vars /\ WF_vars(ProcStep)

\* ------------------------------------------------------------ properties

Readers == {i \in 1..nAlgs : isReader(algVec[i])}

\* The while (true) loop has been left through its break.
LoopExited == pc \in {"post", "finalize"} \/ lastResult \in {"returned", "crashed"}

\* The for-loop of the current cycle is over.
CycleOver == (pc = "exec" /\ idx > nAlgs) \/ LoopExited

\* The step being taken calls a component.
CallStep == lastCall' # NoCall
ExecCall == CallStep /\ lastCall'.op = "execute"

\* C1: the cycle loop is left only when every registered reader has returned
\* EndOfFile from execute(), and once in the loop it is left eventually unless
\* some registered reader never returns EndOfFile (then finalize is never
\* reached).
C1_TerminatesIffAllEof ==
  /\ [](LoopExited => Readers \subseteq eofRet)
  /\ [](pc = "exec" =>
          (<>LoopExited \/ \E i \in 1..RosterLen : [](i \in Readers /\ i \notin eofRet)))

C1_Witness ==
  /\ pc = "finalize"
  /\ Cardinality(Readers) >= 2
  /\ Readers = eofRet
  /\ cycle >= 2

\* C2 as the specification states it: with no reader registered no execute()
\* is ever invoked.
C2_NoCycleWithoutReaders ==
  Readers = {} => \A i \in 1..nAlgs : algCalls[i].execute = 0

\* C2 amended: with no reader registered process() performs exactly one cycle:
\* the algorithms are visited once in registration order up to the first
\* SkipToNext, and the loop is left after that cycle.
C2_OneCycleWithoutReaders ==
  Readers = {} =>
    /\ cycle <= 1
    /\ LoopExited =>
         /\ cycle = 1
         /\ invoked = IF skipPos > 0 THEN 1..skipPos ELSE 1..nAlgs
         /\ \A i \in 1..nAlgs : algCalls[i].execute = 1 <=> i \in invoked

C2_Witness ==
  /\ Readers = {}
  /\ lastResult = "returned"
  /\ nAlgs >= 2
  /\ invoked = 1..nAlgs

\* C3: when the algorithm at position i returns SkipToNext, no algorithm at a
\* later position is invoked in that cycle and the return leaves the
\* active-reader set unchanged; in a cycle every algorithm that no skip
\* precedes and that is no exhausted reader is invoked when its turn comes.
C3_SkipToNext ==
  /\ [](skipPos > 0 => \A j \in invoked : j <= skipPos)
  /\ [](pc = "exec" =>
          \A j \in 1..nAlgs :
            (j < idx /\ (skipPos = 0 \/ j <= skipPos)) => (j \in invoked \/ Exhausted(j)))
  /\ [][(ExecCall /\ lastCall'.status = "SkipToNext") =>
          /\ runningReaders' = runningReaders
          /\ skipPos' = idx
          /\ CycleOver']_vars
  /\ [][(pc = "exec" /\ skipPos > 0 /\ runningReaders # {}) =>
          (skipPos' = skipPos \/ (pc' = "exec" /\ idx' = 1 /\ invoked' = {}))]_vars

C3_Witness ==
  /\ pc = "exec"
  /\ skipPos > 0
  /\ skipPos < nAlgs
  /\ cycle >= 2
  /\ runningReaders # {}

\* C4: when a reader returns EndOfFile exactly that reader leaves the
\* active-reader set and the for-loop goes on with the next algorithm; a cycle
\* without SkipToNext, the one that removes the last reader included, invokes
\* every algorithm that is no exhausted reader.
C4_EndOfFile ==
  /\ [][(ExecCall /\ lastCall'.status = "EndOfFile" /\ isReader(algVec[idx])) =>
          /\ idx \in runningReaders
          /\ runningReaders' = runningReaders \ {idx}
          /\ pc' = "exec"
          /\ idx' = idx + 1]_vars
  /\ []((CycleOver /\ cycle >= 1 /\ skipPos = 0) =>
          \A j \in 1..nAlgs : j \in invoked \/ (isReader(algVec[j]) /\ j \notin runningReaders))

C4_Witness ==
  /\ pc = "post"
  /\ skipPos = 0
  /\ \E i \in Readers : i \in invoked /\ \E j \in invoked : j > i /\ ~isReader(algVec[j])

\* C5: with scripted readers (reader i returns EndOfFile on its script[i]-th
\* call and Continue before) and nothing returning SkipToNext, the loop is
\* left after exactly max(script[i]) cycles: it runs no more cycles than that
\* and has run that many when it is left.
C5_MaxScriptCycles ==
  Readers # {} =>
    /\ cycle <= SetMax({script[i] : i \in Readers})
    /\ LoopExited => cycle = SetMax({script[i] : i \in Readers})
    /\ \A i \in eofRet : calls[i] = script[i]

C5_Witness ==
  /\ lastResult = "returned"
  /\ Cardinality(Readers) = 2
  /\ \E i, j \in Readers : script[i] = 2 /\ script[j] = 4 /\ i < j
  /\ cycle = 4

\* The calls a completed process() has made: every algorithm loaded,
\* connected and finalized once, every tool connected once.
AllDone(op) == \A j \in 1..nAlgs : algCalls[j][op] = 1
NoneDone(op) ==
  /\ \A j \in 1..nAlgs : algCalls[j][op] = 0
  /\ \A t \in 1..nTools : toolCalls[t][op] = 0
ToolsConnected == \A t \in 1..nTools : toolCalls[t].connect = 1

\* In registration order, each once: the call goes to position i when the
\* positions before i have had theirs and no other has.
InOrder(cs, op, i) ==
  \A j \in 1..Len(cs) : cs[j][op] = IF j < i THEN 1 ELSE 0

Pos(type) == CHOOSE i \in 1..nAlgs : algVec[i] = type
Scenario ==
  /\ nAlgs = 3
  /\ \A type \in {"ReaderA", "ReaderB", "SimpleA"} : \E i \in 1..nAlgs : algVec[i] = type
  /\ script[Pos("ReaderA")] = 3
  /\ script[Pos("ReaderB")] = 5
  /\ nTools = 1

\* The latest step called execute() of the SimpleAlg consumer.
ConsumerRan == lastCall.op = "execute" /\ algVec[lastCall.idx] = "SimpleA"

\* C7 as the specification states it: process() runs 5 cycles and the
\* consumer's consume() is invoked in cycles 1 to 3 and in no later cycle.
C7_ConsumesInCycles1To3 ==
  Scenario =>
    /\ LoopExited => cycle = 5
    /\ ConsumerRan => (lastCall.consumed # "none" <=> cycle <= 3)

\* C7 amended: process() runs 5 cycles and A's execute() is called in cycles
\* 1 to 3 only; in every cycle, 4 and 5 included, the consumer's consume() is
\* invoked exactly when A reports a ready payload at that moment, and what A
\* reports no longer changes once A has returned EndOfFile.
C7_ConsumesWhenReady ==
  /\ [](Scenario =>
          /\ LoopExited => cycle = 5
          /\ pc = "exec" /\ Pos("ReaderA") \in invoked => cycle <= 3
          /\ pc = "exec" /\ cycle <= 3 /\ idx > Pos("ReaderA") /\ skipPos = 0
               => Pos("ReaderA") \in invoked)
  /\ [][(Scenario /\ ExecCall /\ algVec[idx] = "SimpleA") =>
          (lastCall'.consumed # "none" <=> ready[Pos("ReaderA")])]_vars
  /\ [][(Scenario /\ Pos("ReaderA") \in eofRet) =>
          ready'[Pos("ReaderA")] = ready[Pos("ReaderA")]]_vars

C7_Witness ==
  /\ Scenario
  /\ algVec = <<"ReaderA", "ReaderB", "SimpleA">>
  /\ cycle = 5
  /\ ConsumerRan
  /\ lastCall.consumed # "none"

\* C8: SimpleAlg binds at its connect to the first registered instance of its
\* reader class; each execute() calls consume() exactly when the bound reader
\* is ready and returns what consume() returned (a SkipToNext ends the
\* cycle), and returns Continue without calling consume() otherwise; a
\* SimpleAlg is never in the active-reader set.
C8_SingleReaderAdapter ==
  /\ [](\A i \in 1..nAlgs : algVec[i] = "SimpleA" =>
          /\ i \notin runningReaders
          /\ algCalls[i].connect = 0 => reader[i] = NullPtr
          /\ reader[i] # NullPtr =>
               /\ algVec[reader[i]] = "ReaderA"
               /\ \A j \in 1..nAlgs : algVec[j] = "ReaderA" => reader[i] <= j
          /\ (algCalls[i].connect = 1 /\ reader[i] = NullPtr) =>
               /\ lastResult = "threw"
               /\ \A j \in 1..nAlgs : algVec[j] # "ReaderA")
  /\ [][(ExecCall /\ algVec[idx] = "SimpleA") =>
          /\ lastCall'.consumed # "none" <=> ready[reader[idx]]
          /\ lastCall'.status = IF lastCall'.consumed # "none" THEN lastCall'.consumed
                                ELSE "Continue"
          /\ lastCall'.status = "SkipToNext" => (CycleOver' /\ skipPos' = idx)
          /\ lastCall'.status # "SkipToNext" => (pc' = "exec" /\ idx' = idx + 1)]_vars

C8_Witness ==
  /\ ConsumerRan
  /\ lastCall.consumed = "SkipToNext"
  /\ algVec = <<"ReaderB", "ReaderA", "SimpleA">>
  /\ reader[3] = 2
  /\ pc = "exec"
  /\ idx > nAlgs

\* The step being taken is a makeOutFile call.
MakeCall == lastOut' # lastOut /\ lastOut'.op = "make"

OtherNamesKept(name) ==
  /\ DOMAIN outFileMap' \ {name} = DOMAIN outFileMap \ {name}
  /\ \A m \in DOMAIN outFileMap \ {name} : outFileMap'[m] = outFileMap[m]

OldFilesKept == \A h \in 1..Len(files) : files'[h] = files[h]

C10_MakeWithReopen ==
  /\ [][(MakeCall /\ lastOut'.reopen /\ Bound(lastOut'.name)) =>
          /\ lastOut'.result = "ok"
          /\ Len(files') = Len(files) + 1
          /\ files'[Len(files')].open
          /\ outFileMap'[lastOut'.name] = Len(files')
          /\ OtherNamesKept(lastOut'.name)
          /\ \A h \in 1..Len(files) : h # outFileMap[lastOut'.name] => files'[h] = files[h]
          /\ outFileMap[lastOut'.name] # NullPtr =>
               /\ ~files'[outFileMap[lastOut'.name]].open
               /\ lastOut'.events = << <<"release", outFileMap[lastOut'.name]>>,
                                       <<"create", Len(files')>> >>]_vars
  /\ [](/\ \A n \in DOMAIN outFileMap : outFileMap[n] # NullPtr => files[outFileMap[n]].open
        /\ \A n, m \in DOMAIN outFileMap :
             (n # m /\ outFileMap[n] = outFileMap[m]) => outFileMap[n] = NullPtr
        /\ \A h \in 1..Len(files) :
             files[h].open => \E n \in DOMAIN outFileMap : outFileMap[n] = h)

C10_Witness ==
  /\ lastOut.op = "make"
  /\ lastOut.reopen
  /\ Len(lastOut.events) = 2
  /\ Cardinality(DOMAIN outFileMap) = 2
  /\ outFileMap[lastOut.name] = 2

\* ---------------------------------------------------------------- lookups

\* The outcome of getThing as the caller sees it.
Found(op, Thing, pred, hit) ==
  [op |-> op, Thing |-> Thing, pred |-> pred, tag |-> NoGet.tag,
   result |-> IF hit = NullPtr THEN "not found" ELSE "ok", ret |-> hit]

\* Pipeline::getAlg<Alg>(pred), called by the assembling code or from a
\* callback; pred is the set of positions at which the predicate holds.
GetAlg(Thing, pred, caught) ==
  /\ MayCallPipeline
  /\ lastGet' = Found("getAlg", Thing, pred, getThing(algVec, Thing, pred))
  /\ IF getThing(algVec, Thing, pred) = NullPtr
       THEN Thrown(caught)
       ELSE caught = TRUE /\ UNCHANGED <<pc, idx, lastResult, inCallback>>
  /\ lastCall' = NoCall
  /\ UNCHANGED <<regVars, fileVars, inFilePaths, cwd, cycle, invoked, skipPos, algCalls,
                 toolCalls, eofRet, tags, inVars>>

\* Pipeline::getTool<Tool>(pred)
GetTool(Thing, pred, caught) ==
  /\ MayCallPipeline
  /\ lastGet' = Found("getTool", Thing, pred, getThing(toolVec, Thing, pred))
  /\ IF getThing(toolVec, Thing, pred) = NullPtr
       THEN Thrown(caught)
       ELSE caught = TRUE /\ UNCHANGED <<pc, idx, lastResult, inCallback>>
  /\ lastCall' = NoCall
  /\ UNCHANGED <<regVars, fileVars, inFilePaths, cwd, cycle, invoked, skipPos, algCalls,
                 toolCalls, eofRet, tags, inVars>>

AlgQueries == {"Algorithm", "Plain", "Tagged", "TaggedSub", "ReaderA"}
ToolQueries == {"Tool", "ToolX", "ToolY"}

\* Whether the class overrides Algorithm::getTag(), which otherwise throws
\* "getTag not implemented for this algorithm".
ImplementsTag(type) == type \in TagTypes

\* A value of an integral type T wider than int, as its two 32-bit words:
\* hi * 2^32 + lo.
Wide(hi, lo) == [hi |-> hi, lo |-> lo]

\* int(tag): the conversion to int keeps the low word.
IntOf(tag) == tag.lo

\* Values passed as tag: the registered ones, one that no instance carries
\* and one outside the range of int (2^32 + 1).
TagQueries == {Wide(0, t) : t \in TagValues \cup {3}} \cup {Wide(1, 1)}

Server(vec, Thing) == {i \in 1..Len(vec) : DerivesTo(vec[i], Thing)}

TagOutcome(Thing, tag, result, hit) ==
  [op |-> "getAlgTag", Thing |-> Thing, pred |-> {}, tag |-> tag,
   result |-> result, ret |-> hit]

\* getThing(vec, tag) with the tag comparison left out: the first instance of
\* Thing that has a tag is returned.
getThingByTagAny(vec, tg, Thing, tag) ==
  LET stop == {i \in Server(vec, Thing) : TRUE}
  IN IF stop = {} THEN [result |-> "not found", ret |-> NullPtr]
     ELSE IF ~ImplementsTag(vec[SetMin(stop)])
            THEN [result |-> "not implemented", ret |-> NullPtr]
            ELSE [result |-> "ok", ret |-> SetMin(stop)]

\* getThing(vec, tag) where an instance without getTag() counts as no match.
getThingByTagLenient(vec, tg, Thing, tag) ==
  LET stop == {i \in Server(vec, Thing) : ImplementsTag(vec[i]) /\ tg[i] = tag}
  IN IF stop = {} THEN [result |-> "not found", ret |-> NullPtr]
     ELSE [result |-> "ok", ret |-> SetMin(stop)]

\* Pipeline::getThing(vec, tag): the scan of getThing(vec, pred) with
\* pred = [&](const Thing& thing) { return thing.getTag() == tag; }.  The scan
\* stops at the first instance of Thing whose getTag() throws or equals tag.
getThingByTag(vec, tg, Thing, tag) ==
  LET stop == {i \in Server(vec, Thing) : ~ImplementsTag(vec[i]) \/ tg[i] = tag}
  IN IF stop = {} THEN [result |-> "not found", ret |-> NullPtr]
     ELSE IF ~ImplementsTag(vec[SetMin(stop)])
            THEN [result |-> "not implemented", ret |-> NullPtr]
            ELSE [result |-> "ok", ret |-> SetMin(stop)]

\* Pipeline::getAlg<Alg>(T tag): getThing<Alg>(algVec, int(tag))
GetAlgTag(Thing, tag, caught) ==
  /\ MayCallPipeline
  /\ LET got == getThingByTag(algVec, tags, Thing, IntOf(tag))
     IN /\ lastGet' = TagOutcome(Thing, tag, got.result, got.ret)
        /\ IF got.result = "ok"
             THEN caught = TRUE /\ UNCHANGED <<pc, idx, lastResult, inCallback>>
             ELSE Thrown(caught)
  /\ lastCall' = NoCall
  /\ UNCHANGED <<regVars, fileVars, inFilePaths, cwd, cycle, invoked, skipPos, algCalls,
                 toolCalls, eofRet, tags, inVars>>

\* The lookups: the assembling code looks components up in a pipeline
\* assembled from plain and tagged algorithms and from tools.
Built == {[type |-> "Plain", tag |-> 0]}
           \cup {[type |-> type, tag |-> tag] : type \in TagTypes, tag \in TagValues}

AlgRosters == UNION {[1..n -> Built] : n \in 0..3}

ToolRosters == {<<>>, <<"ToolX">>, <<"ToolY", "ToolX">>, <<"ToolX", "ToolX">>}

InitLookup ==
  \/ \E r \in AlgRosters :
       Assembled([i \in 1..Len(r) |-> r[i].type], [i \in 1..Len(r) |-> 0],
                 [i \in 1..Len(r) |-> r[i].tag], <<"ToolX">>)
  \/ \E t \in ToolRosters : Assembled(<<>>, <<>>, <<>>, t)

NextLookup ==
  \/ \E Thing \in AlgQueries, pred \in SUBSET (1..nAlgs) : GetAlg(Thing, pred, TRUE)
  \/ \E Thing \in ToolQueries, pred \in SUBSET (1..nTools) : GetTool(Thing, pred, TRUE)
  \/ \E Thing \in AlgQueries, tag \in TagQueries : GetAlgTag(Thing, tag, TRUE)

SpecLookup == InitLookup /\ [][NextLookup]_vars

\* The step being taken is a lookup by predicate.
PredLookup == lastGet' # lastGet /\ lastGet'.op \in {"getAlg", "getTool"}

\* The step being taken is a lookup by tag.
TagLookup == lastGet' # lastGet /\ lastGet'.op = "getAlgTag"

\* The collection a lookup scans.
Scanned(op) == IF op = "getTool" THEN toolVec ELSE algVec

\* The components of the scanned collection that match the lookup g: their
\* class is g.Thing or derives from it and they satisfy the predicate.
Matching(g) ==
  {i \in 1..Len(Scanned(g.op)) : DerivesTo(Scanned(g.op)[i], g.Thing) /\ i \in g.pred}

\* C11: getAlg<T>(pred) and getTool<T>(pred) return the earliest registered
\* component whose class is T or derives from T and that satisfies pred, fail
\* with "couldn't find" exactly when no component matches, and leave the
\* registry as it was.
C11_FirstMatch ==
  [][PredLookup =>
       /\ (lastGet'.result = "not found") <=> (Matching(lastGet') = {})
       /\ (lastGet'.result = "ok") <=> (Matching(lastGet') # {})
       /\ Matching(lastGet') # {} =>
            /\ lastGet'.ret \in Matching(lastGet')
            /\ \A j \in Matching(lastGet') : lastGet'.ret <= j
       /\ UNCHANGED <<algVec, toolVec, runningReaders, tags>>]_vars

C11_Witness ==
  /\ lastGet.op = "getAlg"
  /\ lastGet.Thing = "Tagged"
  /\ lastGet.result = "ok"
  /\ lastGet.ret = 3
  /\ algVec = <<"Plain", "Tagged", "TaggedSub">>
  /\ lastGet.pred = {1, 3}

\* The registered tags of the instances of Thing are pairwise distinct.
DistinctTags(Thing) ==
  \A i, j \in Server(algVec, Thing) : i # j => tags[i] # tags[j]

\* C12: getAlg<T>(tag), for a class T with a tag accessor whose registered
\* instances carry pairwise distinct tags, returns the instance whose tag
\* equals the queried value, wherever it was registered.
C12_TagLookup ==
  [][(TagLookup /\ ImplementsTag(lastGet'.Thing) /\ DistinctTags(lastGet'.Thing)) =>
       \A i \in Server(algVec, lastGet'.Thing) :
         lastGet'.tag = Wide(0, tags[i]) =>
           lastGet'.result = "ok" /\ lastGet'.ret = i]_vars

C12_Witness ==
  /\ lastGet.op = "getAlgTag"
  /\ lastGet.Thing = "Tagged"
  /\ algVec = <<"Plain", "Tagged", "TaggedSub">>
  /\ tags = <<0, 2, 1>>
  /\ lastGet.tag = Wide(0, 1)
  /\ lastGet.result = "ok"
  /\ lastGet.ret = 3

\* C13 as stated: getAlg<T>(tag) for a class T without a tag accessor fails
\* with "getTag not implemented", whatever the collection holds.
C13_AlwaysNotImplemented ==
  [][(TagLookup /\ ~ImplementsTag(lastGet'.Thing)) =>
       lastGet'.result = "not implemented"]_vars

\* An instance of the class Thing that has no tag accessor is registered and
\* no instance of Thing registered before it carries the tag.
HitsUntagged(Thing, tag) ==
  \E i \in Server(algVec, Thing) :
    /\ ~ImplementsTag(algVec[i])
    /\ \A j \in Server(algVec, Thing) :
         j < i => (ImplementsTag(algVec[j]) /\ tags[j] # tag)

\* C13: getAlg<T>(tag) for a class T without a tag accessor fails with "getTag
\* not implemented" exactly when the scan reaches an instance of T without the
\* accessor before an instance carrying the tag; when no instance of T is
\* registered it fails with "couldn't find" instead.
C13_NotImplementedWhenReached ==
  [][(TagLookup /\ ~ImplementsTag(lastGet'.Thing)) =>
       /\ (lastGet'.result = "not implemented")
            <=> HitsUntagged(lastGet'.Thing, IntOf(lastGet'.tag))
       /\ Server(algVec, lastGet'.Thing) = {} => lastGet'.result = "not found"
       /\ lastGet'.result = "ok" =>
            /\ lastGet'.ret \in Server(algVec, lastGet'.Thing)
            /\ ImplementsTag(algVec[lastGet'.ret])
            /\ tags[lastGet'.ret] = IntOf(lastGet'.tag)]_vars

C13_Witness ==
  /\ lastGet.op = "getAlgTag"
  /\ lastGet.Thing = "Plain"
  /\ lastGet.result = "not found"
  /\ algVec = <<"Tagged", "TaggedSub">>
  /\ tags = <<1, 2>>
  /\ lastGet.tag = Wide(0, 1)

\* ------------------------------------------------------------ input files

\* Indices passed to inFile(i), counted from 0 as in the source.
InIndices == 0..3

\* inFileHandles.count(path) taken to be 0 always.
CachedNever(path) == FALSE

\* inFileHandles.count(path) != 0
Cached(path) == path \in DOMAIN inFileHandles

\* Pipeline::inFile(i): inFilePaths.at(i) throws std::out_of_range when i is
\* not an index; otherwise the file of that path is opened unless cached.
InFile(i, caught) ==
  /\ MayCallPipeline
  /\ IF i >= Len(inFilePaths)
       THEN /\ lastIn' = [i |-> i, result |-> "out_of_range", ret |-> NullPtr,
                          opened |-> FALSE]
            /\ Thrown(caught)
            /\ UNCHANGED <<inFileHandles, inOpened>>
       ELSE /\ caught = TRUE
            /\ UNCHANGED <<pc, idx, lastResult, inCallback>>
            /\ LET path == inFilePaths[i + 1]
               IN IF Cached(path)
                    THEN /\ lastIn' = [i |-> i, result |-> "ok",
                                       ret |-> inFileHandles[path], opened |-> FALSE]
                         /\ UNCHANGED <<inFileHandles, inOpened>>
                    ELSE /\ inOpened' = Append(inOpened, path)
                         /\ inFileHandles' = Bind(inFileHandles, path, Len(inOpened) + 1)
                         /\ lastIn' = [i |-> i, result |-> "ok",
                                       ret |-> Len(inOpened) + 1, opened |-> TRUE]
  /\ lastCall' = NoCall
  /\ UNCHANGED <<regVars, fileVars, inFilePaths, cwd, cycle, invoked, skipPos, algCalls,
                 toolCalls, eofRet, tags, lastGet>>

\* The input files: process() is called on a pipeline of one plain algorithm
\* and one tool; the assembling code and the callbacks call inFile.
InitIn == InitOn(<<"Plain">>, <<0>>)

NextIn ==
  \/ \E inFiles \in InFileChoices : ProcessBegin(inFiles)
  \/ ReaderlessStepOver({"Continue"})
  \/ \E i \in InIndices, caught \in BOOLEAN : InFile(i, caught)

SpecIn == InitIn /\ [][NextIn]_vars

\* The step being taken is an inFile call.
InCall == lastIn' # lastIn

\* C14: each path is opened at most once.  The first inFile(i) for a path
\* opens a file and caches it; a later request for the same path, through the
\* same index or another, returns the cached file without opening; no step
\* changes the file cached for a path.
C14_InFileCache ==
  /\ [](\A h, k \in 1..Len(inOpened) : h # k => inOpened[h] # inOpened[k])
  /\ [][\A p \in DOMAIN inFileHandles :
          p \in DOMAIN inFileHandles' /\ inFileHandles'[p] = inFileHandles[p]]_vars
  /\ [][(InCall /\ lastIn'.result = "ok") =>
          IF inFilePaths[lastIn'.i + 1] \in DOMAIN inFileHandles
            THEN /\ lastIn'.ret = inFileHandles[inFilePaths[lastIn'.i + 1]]
                 /\ inOpened' = inOpened
                 /\ inFileHandles' = inFileHandles
            ELSE /\ inOpened' = Append(inOpened, inFilePaths[lastIn'.i + 1])
                 /\ lastIn'.ret = Len(inOpened')
                 /\ DOMAIN inFileHandles' =
                      DOMAIN inFileHandles \cup {inFilePaths[lastIn'.i + 1]}
                 /\ inFileHandles'[inFilePaths[lastIn'.i + 1]] = lastIn'.ret]_vars

C14_Witness ==
  /\ inFilePaths = <<"a.root", "b.root", "a.root">>
  /\ inOpened = <<"b.root", "a.root">>
  /\ lastIn = [i |-> 2, result |-> "ok", ret |-> 2, opened |-> FALSE]
  /\ lastResult = "running"

\* The step being taken is a getOutFile call.
GetCall == lastOut' # lastOut /\ lastOut'.op = "get"

\* C15: getOutFile(name) returns the file that the latest successful
\* makeOutFile for name created, which is open, and changes nothing; when no
\* makeOutFile has bound name it returns the null pointer and name is then a
\* key of the map with an empty entry, all other entries being as before.
C15_GetOutFile ==
  [][GetCall =>
       /\ files' = files
       /\ OtherNamesKept(lastOut'.name)
       /\ IF lastOut'.name \in DOMAIN lastMade
            THEN /\ lastOut'.ret = lastMade[lastOut'.name]
                 /\ files[lastOut'.ret].open
                 /\ outFileMap' = outFileMap
            ELSE /\ lastOut'.ret = NullPtr
                 /\ lastOut'.name \in DOMAIN outFileMap'
                 /\ outFileMap'[lastOut'.name] = NullPtr]_vars

C15_Witness ==
  /\ lastOut.op = "get"
  /\ lastOut.name = "aux"
  /\ lastOut.ret = 2
  /\ ~files[1].open
  /\ DOMAIN outFileMap = {"aux", DefaultFile}
  /\ outFileMap[DefaultFile] = NullPtr

\* C16 as stated: every registered component has its pipe_ set, from the
\* return of makeAlg / makeTool on.
C16_SetAtRegistration ==
  /\ \A i \in 1..nAlgs : pipeSet[i] = "set"
  /\ \A t \in 1..nTools : toolPipeSet[t] = "set"

\* C16: a component's pipe_ is set by process() in its connect phase, in the
\* do_connect call made on the component: it is not set before that call (not
\* after registration, not during load), it is set from that call on, and
\* do_connect is called on each component at most once.
C16_SetAtConnect ==
  /\ [](/\ \A i \in 1..nAlgs :
             /\ pipeSet[i] = "set" <=> algCalls[i]["connect"] = 1
             /\ algCalls[i]["connect"] <= 1
        /\ \A t \in 1..nTools :
             /\ toolPipeSet[t] = "set" <=> toolCalls[t]["connect"] = 1
             /\ toolCalls[t]["connect"] <= 1)
  /\ [][/\ \A i \in 1..nAlgs :
             pipeSet'[i] # pipeSet[i] =>
               /\ pc = "connect" /\ idx = i
               /\ lastCall' = CallOf("connect", "alg", i)
        /\ \A t \in 1..nTools :
             toolPipeSet'[t] # toolPipeSet[t] =>
               /\ pc = "connectTools" /\ idx = t
               /\ lastCall' = CallOf("connect", "tool", t)]_vars

C16_Witness ==
  /\ pc = "connect"
  /\ idx = 2
  /\ pipeSet = <<"set", "uninit">>
  /\ toolPipeSet = <<"uninit">>
  /\ algCalls[2]["load"] = 1

\* C17: a reader that has returned EndOfFile is out of runningReaders and its
\* execute() is not called again, in the rest of that cycle or in any later
\* cycle; no algorithm's execute() is called twice in one cycle.
C17_NoCallAfterEof ==
  /\ [](eofRet \cap runningReaders = {})
  /\ [][ExecCall =>
          /\ lastCall'.idx \notin eofRet
          /\ lastCall'.idx \notin invoked
          /\ isReader(algVec[lastCall'.idx]) => lastCall'.idx \in runningReaders]_vars

C17_Witness ==
  /\ pc = "exec"
  /\ cycle = 2
  /\ algVec = <<"ReaderA", "ReaderB", "Plain">>
  /\ eofRet = {1}
  /\ invoked = {2, 3}
  /\ lastCall.op = "execute"
  /\ lastCall.idx = 3

\* C18: runningReaders holds registered readers only, and all of them until
\* process() is called; while process() runs the one step that changes it is
\* the removal of the reader whose execute() has just returned EndOfFile.
\* Continue, SkipToNext, and EndOfFile from an algorithm that is no reader
\* leave it unchanged, and after Continue and EndOfFile the for-loop goes on
\* with the next algorithm.
C18_ActiveReaders ==
  /\ [](runningReaders \subseteq Readers)
  /\ [](Assembling => runningReaders = Readers)
  /\ [][lastResult = "running" =>
          /\ runningReaders' \subseteq runningReaders
          /\ runningReaders' # runningReaders =>
               /\ ExecCall
               /\ lastCall'.status = "EndOfFile"
               /\ isReader(algVec[lastCall'.idx])
               /\ runningReaders' = runningReaders \ {lastCall'.idx}]_vars
  /\ [][ExecCall =>
          /\ (lastCall'.status = "EndOfFile" /\ isReader(algVec[lastCall'.idx])) =>
               runningReaders' = runningReaders \ {lastCall'.idx}
          /\ (lastCall'.status # "EndOfFile" \/ ~isReader(algVec[lastCall'.idx])) =>
               runningReaders' = runningReaders
          /\ lastCall'.status \in {"EndOfFile", "Continue"} =>
               pc' = "exec" /\ idx' = lastCall'.idx + 1]_vars

C18_Witness ==
  /\ pc = "exec"
  /\ algVec = <<"ReaderA", "Plain", "ReaderB">>
  /\ lastCall.op = "execute"
  /\ lastCall.idx = 2
  /\ lastCall.status = "EndOfFile"
  /\ idx = 3
  /\ runningReaders = {1, 3}

\* C19 as stated: when process() is at its post-loop step and DefaultFile is
\* a key of outFileMap, the entry holds an open file that makeOutFile created.
C19_DefaultIsLive ==
  (pc = "post" /\ Bound(DefaultFile)) =>
    /\ outFileMap[DefaultFile] # NullPtr
    /\ DefaultFile \in DOMAIN lastMade
    /\ outFileMap[DefaultFile] = lastMade[DefaultFile]
    /\ files[outFileMap[DefaultFile]].open

\* C20 as stated: makeOutFile throws "already opened" only for a name that an
\* earlier successful makeOutFile has bound.
C20_ConflictOnlyAfterMake ==
  [][(MakeCall /\ lastOut'.result = "already opened") =>
       lastOut'.name \in DOMAIN lastMade]_vars

====
